---- MODULE Spec2Model ----
(***************************************************************************)
(* A model of the DBGp connection of xdebug-mcp (src/dbgp/connection.ts):  *)
(* the command queue with its single outstanding command, the correlation  *)
(* of responses by transaction id, the command timers, the close handling  *)
(* and the frame codec that splits the socket's byte stream into payloads; *)
(* and of what is built on it: the debug session, the session manager with *)
(* its active session, and the pending breakpoints applied at attach.      *)
(*                                                                         *)
(* Node's event loop is modelled as it schedules the code: a socket event  *)
(* or a timer is a macrotask and runs only when the microtask queue is     *)
(* empty; settling a promise queues the awaiting continuation as a         *)
(* microtask.                                                              *)
(***************************************************************************)
EXTENDS Integers, Sequences, FiniteSets, TLC

\* ------------------------------------------------------------------ bounds
MaxCalls == 4          \* sendCommand calls made on the connection
MaxPayloadLen == 1     \* characters of one short payload
MaxFrames == 2         \* frames put on the wire
LongLen == 10          \* bytes of the long payloads (a two-digit length)
MaxSessions == 3       \* connections the session manager is driven with
MaxPending == 2        \* pending breakpoints ever added to the store
MaxTools == 3          \* tool calls made by the client
MaxOps == 2            \* session operations called by tools
MaxArgLen == 3         \* characters of an argument value
MaxWire == 5           \* bytes of a wire that need not be well framed
MaxLiveCalls == 3      \* sendCommand calls on the connection that never closes
MaxInits == 2          \* init frames the engine sends on one connection

\* ------------------------------------------------------- connection state
VARIABLES
  closed,            \* this.closed
  transactionId,     \* this.transactionId
  pendingCommands,   \* this.pendingCommands : txId -> waiter (the call)
  timers,            \* armed setTimeout handles, {[tx, call]}
  commandQueue,      \* this.commandQueue : deferred execute closures
  written,           \* what socket.write has been given, in order
  waiters,           \* the promise of each sendCommand call, by call number
  microQ,            \* continuations of settled promises not yet run
  settled,           \* the calls in the order their promises were settled
  closeEmitted,      \* number of 'close' events emitted
  lastEvent,         \* the handler that ran last
\* ------------------------------------------------------------ codec state
  payloads,          \* the payloads the engine sends
  wire,              \* their framing as bytes
  fed,               \* number of bytes of wire the socket has delivered
  buffer,            \* this.buffer
  parserState,       \* this.parserState
  expectedLength,    \* this.expectedLength
  emitted,           \* the xmlData strings given to handleMessage
  splitSeen,         \* a chunk has ended inside a frame
\* ------------------------------------------------------- argument escaping
  argValue,          \* an argument value given to sendCommand
  otherValue,        \* the value of another argument
  argEscaped,        \* escapeArg(argValue), as written into the command
  otherEscaped,      \* escapeArg(otherValue)
  argParsed,         \* what the engine reads from argEscaped
  argPc,             \* how far the value has got: value, escaped, parsed
\* ------------------------------------- server, sessions, pending breakpoints
  accepts,           \* number of sockets the server has accepted
  conns,             \* the DbgpConnection of each accepted socket
  ops,               \* per connection: what each sendCommand call was made for
  initPacket,        \* per connection: this.initPacket (NoPacket is null)
  sess,              \* the DebugSession built on each connection
  sessions,          \* SessionManager.sessions, in Map insertion order
  activeSessionId,   \* SessionManager.activeSessionId (NoId is null)
  pendingBreakpoints,   \* PendingBreakpointsManager.pendingBreakpoints, in Map order
  breakpointIdCounter,  \* PendingBreakpointsManager.breakpointIdCounter
  appliedBreakpoints,   \* PendingBreakpointsManager.appliedBreakpoints
  proc,              \* per connection: where main's connection handler stands
  issued,            \* per connection: pending ids given to breakpoint_set, in order
  sessionCreated,    \* per id: number of sessionCreated events emitted for it
  sessionEnded,      \* per id: number of sessionEnded events emitted for it
  lastStatus,        \* per connection: status of the last response that carried one
  pinned,            \* id of the last successful set_active whose session has not closed
  mlast,             \* the manager-level handler that ran last
  toolCalls          \* number of tool calls made

connVars == <<closed, transactionId, pendingCommands, timers, commandQueue,
              written, waiters, microQ, settled, closeEmitted, lastEvent>>
codecVars == <<payloads, wire, fed, buffer, parserState, expectedLength, emitted,
               splitSeen>>
argVars == <<argValue, otherValue, argEscaped, otherEscaped, argParsed, argPc>>
mgrVars == <<accepts, conns, ops, initPacket, sess, sessions, activeSessionId,
             pendingBreakpoints, breakpointIdCounter, appliedBreakpoints, proc,
             issued, sessionCreated, sessionEnded, lastStatus, pinned, mlast,
             toolCalls>>
vars == <<closed, transactionId, pendingCommands, timers, commandQueue,
          written, waiters, microQ, settled, closeEmitted, lastEvent,
          payloads, wire, fed, buffer, parserState, expectedLength, emitted,
          splitSeen,
          argValue, otherValue, argEscaped, otherEscaped, argParsed, argPc,
          accepts, conns, ops, initPacket, sess, sessions, activeSessionId,
          pendingBreakpoints, breakpointIdCounter, appliedBreakpoints, proc,
          issued, sessionCreated, sessionEnded, lastStatus, pinned, mlast,
          toolCalls>>

\* ---------------------------------------------------------------- helpers
MapSet(m, k, v) == [x \in (DOMAIN m) \cup {k} |-> IF x = k THEN v ELSE m[x]]
MapDelete(m, k) == [x \in (DOMAIN m) \ {k} |-> m[x]]
EmptyMap == [x \in {} |-> 0]
MapSize(m) == Cardinality(DOMAIN m)
Range(s) == {s[i] : i \in DOMAIN s}
Min(S) == CHOOSE x \in S : \A y \in S : x <= y

NoResponse == [tx |-> -1, err |-> FALSE]

\* The connection as one record, so that a handler and the calls it makes
\* compose as functions.
Conn ==
  [closed |-> closed, transactionId |-> transactionId,
   pendingCommands |-> pendingCommands, timers |-> timers,
   commandQueue |-> commandQueue, written |-> written, waiters |-> waiters,
   microQ |-> microQ, settled |-> settled, closeEmitted |-> closeEmitted]

SetConn(s) ==
  /\ closed' = s.closed
  /\ transactionId' = s.transactionId
  /\ pendingCommands' = s.pendingCommands
  /\ timers' = s.timers
  /\ commandQueue' = s.commandQueue
  /\ written' = s.written
  /\ waiters' = s.waiters
  /\ microQ' = s.microQ
  /\ settled' = s.settled
  /\ closeEmitted' = s.closeEmitted

\* resolve / reject of the promise of call c: a promise settles once, and
\* settling queues the awaiting continuation as a microtask.
Settle(s, c, outcome, resp) ==
  IF s.waiters[c].status = "waiting"
  THEN [s EXCEPT !.waiters[c] = [status |-> outcome, resp |-> resp],
                 !.microQ = Append(@, c),
                 !.settled = Append(@, c)]
  ELSE s

\* clearTimeout(pending.timeout)
clearTimeout(s, tx) == [s EXCEPT !.timers = {t \in @ : t.tx # tx}]

\* execute with the counter read but never stored back.
executeStaleCounter(s, c) ==
  LET txId == s.transactionId + 1 IN
  [s EXCEPT !.timers = @ \cup {[tx |-> txId, call |-> c]},
            !.pendingCommands = MapSet(@, txId, c),
            !.written = Append(@, [call |-> c, tx |-> txId])]

\* execute arming no timer.
executeNoTimer(s, c) ==
  LET txId == s.transactionId + 1 IN
  [s EXCEPT !.transactionId = txId,
            !.pendingCommands = MapSet(@, txId, c),
            !.written = Append(@, [call |-> c, tx |-> txId])]

\* The execute closure of call c: allocate the id, arm the timer, record the
\* waiter, write the command.
execute(s, c) ==
  LET txId == s.transactionId + 1 IN
  [s EXCEPT !.transactionId = txId,
            !.timers = @ \cup {[tx |-> txId, call |-> c]},
            !.pendingCommands = MapSet(@, txId, c),
            !.written = Append(@, [call |-> c, tx |-> txId])]

\* processQueue without the test that nothing is outstanding.
processQueueNoCheck(s) ==
  IF Len(s.commandQueue) > 0
  THEN execute([s EXCEPT !.commandQueue = Tail(@)], Head(s.commandQueue))
  ELSE s

\* processQueue taking the newest closure (pop) instead of the oldest (shift).
processQueuePop(s) ==
  IF Len(s.commandQueue) > 0 /\ MapSize(s.pendingCommands) = 0
  THEN execute([s EXCEPT !.commandQueue = SubSeq(@, 1, Len(@) - 1)],
               s.commandQueue[Len(s.commandQueue)])
  ELSE s

processQueue(s) ==
  IF Len(s.commandQueue) > 0 /\ MapSize(s.pendingCommands) = 0
  THEN execute([s EXCEPT !.commandQueue = Tail(@)], Head(s.commandQueue))
  ELSE s

\* sendCommand that writes at once, whatever is outstanding.
sendCommandAlwaysExecute(s) ==
  LET c == Len(s.waiters) + 1 IN
  IF s.closed
  THEN [s EXCEPT !.waiters = Append(@, [status |-> "ConnectionClosed", resp |-> NoResponse]),
                 !.microQ = Append(@, c),
                 !.settled = Append(@, c)]
  ELSE execute([s EXCEPT !.waiters = Append(@, [status |-> "waiting", resp |-> NoResponse])], c)

\* sendCommand: the call gets the next call number c.
sendCommand(s) ==
  LET c == Len(s.waiters) + 1 IN
  IF s.closed
  THEN [s EXCEPT !.waiters = Append(@, [status |-> "ConnectionClosed", resp |-> NoResponse]),
                 !.microQ = Append(@, c),
                 !.settled = Append(@, c)]
  ELSE LET s1 == [s EXCEPT !.waiters = Append(@, [status |-> "waiting", resp |-> NoResponse])] IN
       IF MapSize(s1.pendingCommands) > 0
       THEN [s1 EXCEPT !.commandQueue = Append(@, c)]
       ELSE execute(s1, c)

\* handleMessage completing whichever waiter is pending, whatever the frame's id.
handleResponseAnyPending(s, resp) ==
  LET s1 == IF DOMAIN s.pendingCommands # {}
            THEN LET txId == Min(DOMAIN s.pendingCommands) IN
                 Settle([clearTimeout(s, txId) EXCEPT !.pendingCommands = MapDelete(@, txId)],
                        s.pendingCommands[txId], "Resolved", resp)
            ELSE s
  IN processQueue(s1)

\* handleMessage deleting the matching entry without calling its resolve.
handleResponseNoResolve(s, resp) ==
  LET txId == resp.tx
      s1 == IF txId \in DOMAIN s.pendingCommands
            THEN [clearTimeout(s, txId) EXCEPT !.pendingCommands = MapDelete(@, txId)]
            ELSE s
  IN processQueue(s1)

\* handleMessage rejecting the waiter of a response that carries an error.
handleResponseRejectError(s, resp) ==
  LET txId == resp.tx
      s1 == IF txId \in DOMAIN s.pendingCommands
            THEN Settle([clearTimeout(s, txId) EXCEPT !.pendingCommands = MapDelete(@, txId)],
                        s.pendingCommands[txId],
                        IF resp.err THEN "EngineError" ELSE "Resolved", resp)
            ELSE s
  IN IF resp.err THEN s1 ELSE processQueue(s1)

\* handleMessage for a response frame up to this.emit('response', response):
\* the connection as the listeners of response and stateChange find it,
\* before processQueue is called.
responseEmitted(s, resp) ==
  LET txId == resp.tx IN
  IF txId \in DOMAIN s.pendingCommands
  THEN Settle([clearTimeout(s, txId) EXCEPT !.pendingCommands = MapDelete(@, txId)],
              s.pendingCommands[txId], "Resolved", resp)
  ELSE s

\* handleMessage for a frame whose root element is response.
handleResponse(s, resp) ==
  LET txId == resp.tx
      s1 == IF txId \in DOMAIN s.pendingCommands
            THEN Settle([clearTimeout(s, txId) EXCEPT !.pendingCommands = MapDelete(@, txId)],
                        s.pendingCommands[txId], "Resolved", resp)
            ELSE s
  IN processQueue(s1)

\* The timeout callback without its processQueue call.
timeoutCallbackNoDrain(s, t) ==
  Settle([s EXCEPT !.timers = @ \ {t},
                   !.pendingCommands = MapDelete(@, t.tx)],
         t.call, "Timeout", NoResponse)

\* The setTimeout callback armed by execute for transaction t.tx of call t.call.
timeoutCallback(s, t) ==
  processQueue(Settle([s EXCEPT !.timers = @ \ {t},
                                !.pendingCommands = MapDelete(@, t.tx)],
                      t.call, "Timeout", NoResponse))

\* The loop of handleClose over the pending map, in the map's insertion order
\* (ids are inserted in increasing order).
RECURSIVE rejectPending(_, _)
rejectPending(s, txs) ==
  IF txs = {} THEN s
  ELSE LET tx == Min(txs) IN
       rejectPending(Settle(clearTimeout(s, tx), s.pendingCommands[tx],
                            "ConnectionClosed", NoResponse),
                     txs \ {tx})

\* handleClose clearing the map without rejecting its waiters.
handleCloseNoReject(s) ==
  [s EXCEPT !.closed = TRUE,
            !.timers = {},
            !.pendingCommands = EmptyMap,
            !.commandQueue = <<>>,
            !.closeEmitted = @ + 1]

handleClose(s) ==
  LET s1 == rejectPending([s EXCEPT !.closed = TRUE], DOMAIN s.pendingCommands) IN
  [s1 EXCEPT !.pendingCommands = EmptyMap,
             !.commandQueue = <<>>,
             !.closeEmitted = @ + 1]

\* ------------------------------------------------------ connection actions
Responses == [tx : 0..MaxCalls, err : BOOLEAN]

InitConn ==
  /\ closed = FALSE
  /\ transactionId = 0
  /\ pendingCommands = EmptyMap
  /\ timers = {}
  /\ commandQueue = <<>>
  /\ written = <<>>
  /\ waiters = <<>>
  /\ microQ = <<>>
  /\ settled = <<>>
  /\ closeEmitted = 0
  /\ lastEvent = [type |-> "none", tx |-> 0, call |-> 0, err |-> FALSE]

InitCodecIdle ==
  /\ payloads = <<>>
  /\ wire = <<>>
  /\ fed = 0
  /\ buffer = <<>>
  /\ parserState = "DataLength"
  /\ expectedLength = [nan |-> FALSE, val |-> 0]
  /\ emitted = <<>>
  /\ splitSeen = FALSE

\* No argument value is being escaped.
InitArgIdle ==
  /\ argValue = <<>>
  /\ otherValue = <<>>
  /\ argEscaped = <<>>
  /\ otherEscaped = <<>>
  /\ argParsed = <<>>
  /\ argPc = "idle"

\* The server has accepted no socket, the manager and the pending store are
\* as constructed.
Ids == 1..MaxSessions
NoId == 0

NewConn ==
  [closed |-> FALSE, transactionId |-> 0, pendingCommands |-> EmptyMap,
   timers |-> {}, commandQueue |-> <<>>, written |-> <<>>, waiters |-> <<>>,
   microQ |-> <<>>, settled |-> <<>>, closeEmitted |-> 0]

\* The init records an engine sends, by content, and the null of initPacket.
FirstRecord == "first"
InitRecords == {FirstRecord, "other"}
NoPacket == "null"

NoSession == [created |-> FALSE, status |-> "starting", initialized |-> FALSE]
NoProc == [pc |-> "none", pos |-> 0, applied |-> <<>>]
NoEvent == [type |-> "none", id |-> NoId, res |-> NoId]

InitMgr ==
  /\ accepts = 0
  /\ conns = [c \in Ids |-> NewConn]
  /\ ops = [c \in Ids |-> <<>>]
  /\ initPacket = [c \in Ids |-> NoPacket]
  /\ sess = [c \in Ids |-> NoSession]
  /\ sessions = <<>>
  /\ activeSessionId = NoId
  /\ pendingBreakpoints = <<>>
  /\ breakpointIdCounter = 0
  /\ appliedBreakpoints = EmptyMap
  /\ proc = [c \in Ids |-> NoProc]
  /\ issued = [c \in Ids |-> <<>>]
  /\ sessionCreated = [c \in Ids |-> 0]
  /\ sessionEnded = [c \in Ids |-> 0]
  /\ lastStatus = [c \in Ids |-> "starting"]
  /\ pinned = NoId
  /\ mlast = NoEvent
  /\ toolCalls = 0

\* A tool handler or a continuation calls sendCommand.
SendCommand ==
  /\ Len(waiters) < MaxCalls
  /\ SetConn(sendCommand(Conn))
  /\ lastEvent' = [type |-> "send", tx |-> 0, call |-> Len(waiters) + 1, err |-> FALSE]
  /\ UNCHANGED <<codecVars, argVars, mgrVars>>

\* The codec hands handleMessage a response frame. It is the first frame of a
\* chunk (a macrotask) or a further frame of the chunk being processed. The
\* listeners of the response event (DebugSession, SessionManager) send no
\* command, so no sendCommand runs between the delete and processQueue.
HandleMessage ==
  /\ ~closed
  /\ microQ = <<>> \/ lastEvent.type = "response"
  /\ \E resp \in Responses :
       /\ SetConn(handleResponse(Conn, resp))
       /\ lastEvent' = [type |-> "response", tx |-> resp.tx,
                        call |-> IF resp.tx \in DOMAIN pendingCommands
                                 THEN pendingCommands[resp.tx] ELSE 0,
                        err |-> resp.err]
  /\ UNCHANGED <<codecVars, argVars, mgrVars>>

\* The timer of an outstanding command expires.
TimerExpires ==
  /\ microQ = <<>>
  /\ \E t \in timers :
       /\ SetConn(timeoutCallback(Conn, t))
       /\ lastEvent' = [type |-> "timeout", tx |-> t.tx, call |-> t.call, err |-> FALSE]
  /\ UNCHANGED <<codecVars, argVars, mgrVars>>

\* The socket emits close (once).
HandleClose ==
  /\ ~closed
  /\ microQ = <<>>
  /\ SetConn(handleClose(Conn))
  /\ lastEvent' = [type |-> "close", tx |-> 0, call |-> 0, err |-> FALSE]
  /\ UNCHANGED <<codecVars, argVars, mgrVars>>

\* The event loop runs the next microtask: the continuation of a settled call.
RunMicrotask ==
  /\ microQ # <<>>
  /\ microQ' = Tail(microQ)
  /\ lastEvent' = [type |-> "microtask", tx |-> 0, call |-> Head(microQ), err |-> FALSE]
  /\ UNCHANGED <<closed, transactionId, pendingCommands, timers, commandQueue,
                 written, waiters, settled, closeEmitted>>
  /\ UNCHANGED <<codecVars, argVars, mgrVars>>

Init == InitConn /\ InitCodecIdle /\ InitArgIdle /\ InitMgr
Next == SendCommand \/ HandleMessage \/ TimerExpires \/ HandleClose \/ RunMicrotask
Spec == Init /\ [][Next]_vars

\* The connection that never closes. The timer armed by execute fires after
\* commandTimeout unless it is cleared, and the event loop runs every queued
\* continuation; the engine need not answer.
LiveSend == Len(waiters) < MaxLiveCalls /\ SendCommand
LiveNext == LiveSend \/ HandleMessage \/ TimerExpires \/ RunMicrotask
LiveSpec ==
  /\ Init
  /\ [][LiveNext]_vars
  /\ WF_vars(TimerExpires)
  /\ WF_vars(RunMicrotask)

\* ------------------------------------------------------------- frame codec
\* Text is a sequence of code points, the socket carries bytes. The model
\* covers the one- and two-byte forms of UTF-8.
NUL == 0
ReplacementChar == 65533
IsDigit(c) == c >= 48 /\ c <= 57
IsWhiteSpace(c) == c \in {9, 10, 11, 12, 13, 32}
IsContinuation(b) == b >= 128 /\ b <= 191

EncodeChar(c) == IF c < 128 THEN <<c>> ELSE <<192 + (c \div 64), 128 + (c % 64)>>

RECURSIVE Utf8Encode(_)
Utf8Encode(str) ==
  IF str = <<>> THEN <<>> ELSE EncodeChar(Head(str)) \o Utf8Encode(Tail(str))

\* Buffer.toString('utf8'): an ill-formed byte decodes to U+FFFD.
RECURSIVE toStringUtf8(_)
toStringUtf8(bytes) ==
  IF bytes = <<>> THEN <<>>
  ELSE LET b1 == bytes[1] IN
       IF b1 < 128 THEN <<b1>> \o toStringUtf8(Tail(bytes))
       ELSE IF b1 >= 194 /\ b1 <= 223 /\ Len(bytes) >= 2 /\ IsContinuation(bytes[2])
       THEN <<(b1 - 192) * 64 + (bytes[2] - 128)>> \o toStringUtf8(SubSeq(bytes, 3, Len(bytes)))
       ELSE <<ReplacementChar>> \o toStringUtf8(Tail(bytes))

\* The decimal digits of n, as ASCII bytes.
RECURSIVE Digits(_)
Digits(n) == IF n < 10 THEN <<48 + n>> ELSE Digits(n \div 10) \o <<48 + (n % 10)>>

\* parseInt(str, 10): leading white space is skipped, a sign is accepted, the
\* longest prefix of digits is the value, no digit at all is NaN.
RECURSIVE SkipWhiteSpace(_)
SkipWhiteSpace(str) ==
  IF str # <<>> /\ IsWhiteSpace(Head(str)) THEN SkipWhiteSpace(Tail(str)) ELSE str

RECURSIVE DigitsValue(_, _)
DigitsValue(str, acc) ==
  IF str # <<>> /\ IsDigit(Head(str))
  THEN DigitsValue(Tail(str), acc * 10 + (Head(str) - 48))
  ELSE acc

NaN == [nan |-> TRUE, val |-> 0]
Number(n) == [nan |-> FALSE, val |-> n]
isNaN(x) == x.nan

parseInt(str) ==
  LET t == SkipWhiteSpace(str)
      neg == t # <<>> /\ Head(t) = 45
      u == IF t # <<>> /\ Head(t) \in {43, 45} THEN Tail(t) ELSE t
  IN IF u = <<>> \/ ~IsDigit(Head(u)) THEN NaN
     ELSE Number(IF neg THEN 0 - DigitsValue(u, 0) ELSE DigitsValue(u, 0))

\* buffer.indexOf(0), with positions counted from 1; 0 when there is none.
indexOf(buf, b) ==
  IF \E i \in DOMAIN buf : buf[i] = b
  THEN Min({i \in DOMAIN buf : buf[i] = b})
  ELSE 0

Codec ==
  [buffer |-> buffer, parserState |-> parserState,
   expectedLength |-> expectedLength, emitted |-> emitted]

SetCodec(b) ==
  /\ buffer' = b.buffer
  /\ parserState' = b.parserState
  /\ expectedLength' = b.expectedLength
  /\ emitted' = b.emitted

\* The while loop of processBuffer; handleMessage(xmlData) is recorded in
\* emitted.
RECURSIVE processBuffer(_)
processBuffer(b) ==
  IF Len(b.buffer) = 0 THEN b
  ELSE IF b.parserState = "DataLength"
  THEN LET nullIndex == indexOf(b.buffer, NUL) IN
       IF nullIndex = 0 THEN b
       ELSE LET lengthStr == toStringUtf8(SubSeq(b.buffer, 1, nullIndex - 1))
                len == parseInt(lengthStr)
                rest == SubSeq(b.buffer, nullIndex + 1, Len(b.buffer))
            IN IF isNaN(len) \/ len.val <= 0
               THEN processBuffer([b EXCEPT !.expectedLength = len, !.buffer = rest])
               ELSE processBuffer([b EXCEPT !.expectedLength = len, !.buffer = rest,
                                            !.parserState = "Response"])
  ELSE IF Len(b.buffer) < b.expectedLength.val + 1 THEN b
       ELSE LET n == b.expectedLength.val
                xmlData == toStringUtf8(SubSeq(b.buffer, 1, n))
            IN processBuffer([b EXCEPT !.buffer = SubSeq(@, n + 2, Len(@)),
                                       !.parserState = "DataLength",
                                       !.emitted = Append(@, xmlData)])

\* handleData keeping only the newest chunk instead of appending it.
handleDataNoConcat(b, data) == processBuffer([b EXCEPT !.buffer = data])

handleData(b, data) == processBuffer([b EXCEPT !.buffer = @ \o data])

\* What the engine puts on the wire for a sequence of payloads.
FrameOf(p) == LET bytes == Utf8Encode(p) IN Digits(Len(bytes)) \o <<NUL>> \o bytes \o <<NUL>>

RECURSIVE WireOf(_)
WireOf(ps) == IF ps = <<>> THEN <<>> ELSE FrameOf(Head(ps)) \o WireOf(Tail(ps))

PayloadChars == {NUL, 49, 233}
ShortPayloads == UNION {[1..n -> PayloadChars] : n \in 0..MaxPayloadLen}
LongPayloads == {[i \in 1..LongLen |-> 97],
                 [i \in 1..LongLen |-> IF i = 2 THEN NUL ELSE 49]}
PayloadSet == ShortPayloads \cup LongPayloads

InitCodec ==
  /\ payloads \in UNION {[1..n -> PayloadSet] : n \in 0..MaxFrames}
  /\ wire = WireOf(payloads)
  /\ fed = 0
  /\ buffer = <<>>
  /\ parserState = "DataLength"
  /\ expectedLength = Number(0)
  /\ emitted = <<>>
  /\ splitSeen = FALSE

\* The socket delivers the next k bytes as one data event.
HandleData ==
  /\ \E k \in 1..(Len(wire) - fed) :
       /\ SetCodec(handleData(Codec, SubSeq(wire, fed + 1, fed + k)))
       /\ fed' = fed + k
  /\ splitSeen' = (splitSeen \/ buffer' # <<>> \/ parserState' = "Response")
  /\ UNCHANGED <<payloads, wire>>
  /\ UNCHANGED <<connVars, argVars, mgrVars>>

CodecInit == InitConn /\ InitCodec /\ InitArgIdle /\ InitMgr
CodecNext == HandleData
CodecSpec == CodecInit /\ [][CodecNext]_vars

\* The codec under any bytes: a NUL, the digits 0 and 1, a letter.
RawBytes == {NUL, 48, 49, 97}

InitRaw ==
  /\ payloads = <<>>
  /\ wire \in UNION {[1..n -> RawBytes] : n \in 0..MaxWire}
  /\ fed = 0
  /\ buffer = <<>>
  /\ parserState = "DataLength"
  /\ expectedLength = Number(0)
  /\ emitted = <<>>
  /\ splitSeen = FALSE

RawInit == InitConn /\ InitRaw /\ InitArgIdle /\ InitMgr
RawNext == HandleData
RawSpec == RawInit /\ [][RawNext]_vars

\* ------------------------------------------------------ argument escaping
\* A value is a sequence of characters: an ordinary one, a whitespace, the
\* double quote and the backslash.
Ordinary == "a"
Space == " "
Quote == "\""
Backslash == "\\"
ArgChars == {Ordinary, Space, Quote, Backslash}

\* /[\s"\\]/.test(value)
needsQuoting(v) == \E i \in DOMAIN v : v[i] \in {Space, Quote, Backslash}

\* value.replace(/x/g, '\\x'): a backslash goes before every x.
RECURSIVE replaceAll(_, _)
replaceAll(v, x) ==
  IF v = <<>> THEN <<>>
  ELSE (IF Head(v) = x THEN <<Backslash, x>> ELSE <<Head(v)>>) \o replaceAll(Tail(v), x)

\* escapeArg replacing the quotes before the backslashes.
escapeArgQuotesFirst(v) ==
  IF needsQuoting(v)
  THEN <<Quote>> \o replaceAll(replaceAll(v, Quote), Backslash) \o <<Quote>>
  ELSE v

escapeArg(v) ==
  IF needsQuoting(v)
  THEN <<Quote>> \o replaceAll(replaceAll(v, Backslash), Quote) \o <<Quote>>
  ELSE v

\* The reader of a quoted value: a backslash gives the character after it.
RECURSIVE removeEscapes(_)
removeEscapes(e) ==
  IF e = <<>> THEN <<>>
  ELSE IF Head(e) = Backslash /\ Len(e) >= 2
  THEN <<e[2]>> \o removeEscapes(SubSeq(e, 3, Len(e)))
  ELSE <<Head(e)>> \o removeEscapes(Tail(e))

\* The reader of an argument: a value that opens with a quote is unquoted
\* and its escapes are removed, any other is taken as it is.
parseArg(e) ==
  IF Len(e) >= 2 /\ Head(e) = Quote /\ e[Len(e)] = Quote
  THEN removeEscapes(SubSeq(e, 2, Len(e) - 1))
  ELSE e

ArgValues == UNION {[1..n -> ArgChars] : n \in 0..MaxArgLen}

InitArg ==
  /\ argValue \in ArgValues
  /\ otherValue \in ArgValues
  /\ argEscaped = <<>>
  /\ otherEscaped = <<>>
  /\ argParsed = <<>>
  /\ argPc = "value"

\* execute formats the command: each argument value goes through escapeArg.
EscapeArgs ==
  /\ argPc = "value"
  /\ argEscaped' = escapeArg(argValue)
  /\ otherEscaped' = escapeArg(otherValue)
  /\ argPc' = "escaped"
  /\ UNCHANGED <<argValue, otherValue, argParsed>>
  /\ UNCHANGED <<connVars, codecVars, mgrVars>>

\* The engine reads the argument back.
ParseArg ==
  /\ argPc = "escaped"
  /\ argParsed' = parseArg(argEscaped)
  /\ argPc' = "parsed"
  /\ UNCHANGED <<argValue, otherValue, argEscaped, otherEscaped>>
  /\ UNCHANGED <<connVars, codecVars, mgrVars>>

ArgInit == InitConn /\ InitCodecIdle /\ InitArg /\ InitMgr
ArgNext == EscapeArgs \/ ParseArg
ArgSpec == ArgInit /\ [][ArgNext]_vars

\* ------------------------------------------ sessions and their manager
\* The server, the sessions, the manager and the pending store as one record.
World ==
  [accepts |-> accepts, conns |-> conns, ops |-> ops, initPacket |-> initPacket,
   sess |-> sess, sessions |-> sessions, activeSessionId |-> activeSessionId,
   pendingBreakpoints |-> pendingBreakpoints,
   breakpointIdCounter |-> breakpointIdCounter,
   appliedBreakpoints |-> appliedBreakpoints, proc |-> proc, issued |-> issued,
   sessionCreated |-> sessionCreated, sessionEnded |-> sessionEnded]

SetWorld(w) ==
  /\ accepts' = w.accepts
  /\ conns' = w.conns
  /\ ops' = w.ops
  /\ initPacket' = w.initPacket
  /\ sess' = w.sess
  /\ sessions' = w.sessions
  /\ activeSessionId' = w.activeSessionId
  /\ pendingBreakpoints' = w.pendingBreakpoints
  /\ breakpointIdCounter' = w.breakpointIdCounter
  /\ appliedBreakpoints' = w.appliedBreakpoints
  /\ proc' = w.proc
  /\ issued' = w.issued
  /\ sessionCreated' = w.sessionCreated
  /\ sessionEnded' = w.sessionEnded

Remove(seq, x) == SelectSeq(seq, LAMBDA y : y # x)
First(seq) == IF seq = <<>> THEN NoId ELSE Head(seq)

\* this.sessions.values().next().value
firstSession(w) == First(w.sessions)

\* The first session of the map whose status is break, as the loop of
\* getActiveSession finds it.
firstBreakSession(w) ==
  First(SelectSeq(w.sessions, LAMBDA id : w.sess[id].status = "break"))

\* SessionManager's listener of a session's stateChange event. It is attached
\* when the session is registered.
stateChangeListener(w, c) ==
  IF c \in Range(w.sessions) /\ w.sess[c].status = "break" /\ w.activeSessionId = NoId
  THEN [w EXCEPT !.activeSessionId = c]
  ELSE w

\* DebugSession's listener of its connection's response event.
responseListener(w, c, status) ==
  IF ~w.sess[c].created THEN w
  ELSE stateChangeListener(
         IF status # "none" THEN [w EXCEPT !.sess[c].status = status] ELSE w, c)

\* The listener of sessionEnded emptying the pending store as well.
clearSessionBreakpointsAndPending(w, c) ==
  [w EXCEPT !.appliedBreakpoints = MapDelete(@, c),
            !.pendingBreakpoints = <<>>]

\* main's listener of sessionEnded: clearSessionBreakpoints.
clearSessionBreakpoints(w, c) ==
  [w EXCEPT !.appliedBreakpoints = MapDelete(@, c)]

\* The close listener keeping activeSessionId as it is.
sessionCloseListenerKeepActive(w, c) ==
  clearSessionBreakpoints(
    [w EXCEPT !.sessions = Remove(@, c),
              !.sessionEnded[c] = @ + 1], c)

\* SessionManager's listener of a session's close event.
sessionCloseListener(w, c) ==
  LET w1 == [w EXCEPT !.sessions = Remove(@, c)]
      w2 == IF w1.activeSessionId = c
            THEN [w1 EXCEPT !.activeSessionId = firstSession(w1)]
            ELSE w1
  IN clearSessionBreakpoints([w2 EXCEPT !.sessionEnded[c] = @ + 1], c)

\* The close listeners createSession has attached for id c, run one after
\* the other: one for each time it registered a session on the connection.
RECURSIVE sessionCloseListeners(_, _, _)
sessionCloseListeners(w, c, n) ==
  IF n = 0 THEN w ELSE sessionCloseListeners(sessionCloseListener(w, c), c, n - 1)

\* The connection's close event: handleClose, then the listener of every
\* DebugSession built on it, which emits that session's close event.
\* A close that ends every connection of the server.
connectionClosedAll(w, c) ==
  LET w0 == [w EXCEPT !.conns = [d \in Ids |-> IF d <= w.accepts THEN handleClose(w.conns[d])
                                                ELSE w.conns[d]]]
      w1 == [w0 EXCEPT !.conns[c] = handleClose(w.conns[c])] IN
  IF ~w1.sess[c].created THEN w1
  ELSE LET w2 == [w1 EXCEPT !.sess[c].status = "stopped"] IN
       sessionCloseListeners(w2, c, w2.sessionCreated[c])

connectionClosed(w, c) ==
  LET w1 == [w EXCEPT !.conns[c] = handleClose(@)] IN
  IF ~w1.sess[c].created THEN w1
  ELSE LET w2 == [w1 EXCEPT !.sess[c].status = "stopped"] IN
       sessionCloseListeners(w2, c, w2.sessionCreated[c])

\* createSession making the new session active only when it is in break.
registerSessionActiveIfBreak(w, c) ==
  LET w1 == [w EXCEPT !.sess[c].initialized = TRUE,
                      !.sessions = IF c \in Range(@) THEN @ ELSE Append(@, c)]
      w2 == IF w1.activeSessionId = NoId /\ w1.sess[c].status = "break"
            THEN [w1 EXCEPT !.activeSessionId = c]
            ELSE w1
  IN [w2 EXCEPT !.sessionCreated[c] = @ + 1]

\* createSession after initialize has returned.
registerSession(w, c) ==
  LET w1 == [w EXCEPT !.sess[c].initialized = TRUE,
                      !.sessions = IF c \in Range(@) THEN @ ELSE Append(@, c)]
      w2 == IF w1.activeSessionId = NoId
            THEN [w1 EXCEPT !.activeSessionId = c]
            ELSE w1
  IN [w2 EXCEPT !.sessionCreated[c] = @ + 1]

\* getActiveSession: the world it leaves and the session it returns.
getActiveSession(w) ==
  IF w.activeSessionId # NoId
  THEN [w |-> w,
        res |-> IF w.activeSessionId \in Range(w.sessions)
                THEN w.activeSessionId ELSE NoId]
  ELSE IF firstBreakSession(w) # NoId
  THEN [w |-> [w EXCEPT !.activeSessionId = firstBreakSession(w)],
        res |-> firstBreakSession(w)]
  ELSE [w |-> [w EXCEPT !.activeSessionId = firstSession(w)],
        res |-> firstSession(w)]

\* setActiveSession taking any id.
setActiveSessionAnyId(w, id) ==
  [w |-> [w EXCEPT !.activeSessionId = id], ok |-> TRUE]

setActiveSession(w, id) ==
  IF id \in Range(w.sessions)
  THEN [w |-> [w EXCEPT !.activeSessionId = id], ok |-> TRUE]
  ELSE [w |-> w, ok |-> FALSE]

\* resolveSession: an id that is given is looked up, none given is the
\* active session.
resolveSession(w, sid) ==
  IF sid # NoId
  THEN [w |-> w, res |-> IF sid \in Range(w.sessions) THEN sid ELSE NoId]
  ELSE getActiveSession(w)

\* ------------------------------------------------ session manager actions
\* The manager is driven by sessions whose negotiation is one step: the
\* commands of initialize are left to the attach actions further down. The
\* manager only compares a status with break, so the engine's statuses stand
\* here as break and one status that is not break.
MgrStatuses == {"break", "starting"}

Accepted(c) == c <= accepts

\* No continuation is ready to run on any connection.
NoMicrotask == \A c \in Ids : conns[c].microQ = <<>>

\* A socket is accepted and its init frame arrives: main's connection
\* handler calls createSession, which constructs the session and awaits
\* initialize.
MgrAttach(c) ==
  /\ c = accepts + 1
  /\ SetWorld([World EXCEPT !.accepts = c,
                            !.initPacket[c] = FirstRecord,
                            !.sess[c] = [NoSession EXCEPT !.created = TRUE],
                            !.proc[c].pc = "init"])
  /\ mlast' = NoEvent
  /\ UNCHANGED <<lastStatus, pinned, toolCalls>>
  /\ UNCHANGED <<connVars, codecVars, argVars>>

\* initialize returns and createSession registers the session.
MgrInitialized(c) ==
  /\ proc[c].pc = "init"
  /\ SetWorld([registerSession(World, c) EXCEPT !.proc[c].pc = "done"])
  /\ mlast' = NoEvent
  /\ UNCHANGED <<lastStatus, pinned, toolCalls>>
  /\ UNCHANGED <<connVars, codecVars, argVars>>

\* A response carrying a status arrives on an open connection.
MgrStateChange(c) ==
  /\ sess[c].created
  /\ ~conns[c].closed
  /\ \E st \in MgrStatuses :
       SetWorld(responseListener(World, c, st))
  /\ mlast' = NoEvent
  /\ UNCHANGED <<lastStatus, pinned, toolCalls>>
  /\ UNCHANGED <<connVars, codecVars, argVars>>

\* The socket of connection c emits close.
Close(c) ==
  /\ Accepted(c)
  /\ ~conns[c].closed
  /\ NoMicrotask
  /\ SetWorld(connectionClosed(World, c))
  /\ pinned' = IF pinned = c /\ c \in Range(sessions) THEN NoId ELSE pinned
  /\ mlast' = [type |-> "close", id |-> c, res |-> NoId]
  /\ UNCHANGED <<lastStatus, toolCalls>>
  /\ UNCHANGED <<connVars, codecVars, argVars>>

\* The set_active_session tool.
ToolSetActive(id) ==
  /\ NoMicrotask
  /\ LET r == setActiveSession(World, id) IN
       /\ SetWorld(r.w)
       /\ pinned' = IF r.ok THEN id ELSE pinned
       /\ mlast' = [type |-> "setActive", id |-> id, res |-> IF r.ok THEN 1 ELSE 0]
  /\ UNCHANGED <<lastStatus, toolCalls>>
  /\ UNCHANGED <<connVars, codecVars, argVars>>

\* A tool called without a session id that only reads the session it gets.
ToolResolve ==
  /\ NoMicrotask
  /\ LET r == resolveSession(World, NoId) IN
       /\ SetWorld(r.w)
       /\ mlast' = [type |-> "resolve", id |-> NoId, res |-> r.res]
  /\ UNCHANGED <<lastStatus, pinned, toolCalls>>
  /\ UNCHANGED <<connVars, codecVars, argVars>>

MgrNext ==
  \/ \E c \in Ids : MgrAttach(c)
  \/ \E c \in Ids : MgrInitialized(c)
  \/ \E c \in Ids : MgrStateChange(c)
  \/ \E c \in Ids : Close(c)
  \/ \E id \in Ids : ToolSetActive(id)
  \/ ToolResolve

MgrSpec == Init /\ [][MgrNext]_vars

\* ------------------------------------------------- attach of a session
\* initialize sets four features, one command after the other.
NumFeatures == 4

\* Status attributes a response frame carries ("none": no attribute).
RespStatus == {"none", "break"}

\* sendCommand on connection c, made for kind (with argument arg).
sendOn(w, c, kind, arg) ==
  [w EXCEPT !.conns[c] = sendCommand(@),
            !.ops[c] = Append(@, [kind |-> kind, arg |-> arg])]

\* handleMessage for an init frame that emits init without storing the packet.
initReceivedNoPacket(w, c, rec) ==
  sendOn([w EXCEPT !.sess[c] = [NoSession EXCEPT !.created = TRUE],
                   !.proc[c].pc = "init"],
         c, "feature", 1)

\* handleMessage for an init frame: the packet is stored and init is emitted;
\* the server emits connection, main's handler calls createSession, which
\* constructs the session and calls initialize: the first setFeature. rec is
\* the record the frame carries.
initReceived(w, c, rec) ==
  sendOn([w EXCEPT !.initPacket[c] = rec,
                   !.sess[c] = [NoSession EXCEPT !.created = TRUE],
                   !.proc[c].pc = "init"],
         c, "feature", 1)

\* An entry of the pending store that applyToSession issues when it reaches
\* it: enabled, and with the file (exception, function) its type needs.
Issuable(bp) == ~bp.removed /\ bp.enabled /\ bp.target

\* The position of the next entry after pos the loop of applyToSession
\* issues, 0 if the iterator ends first.
nextIssuable(w, pos) ==
  LET later == {k \in DOMAIN w.pendingBreakpoints :
                  k > pos /\ Issuable(w.pendingBreakpoints[k])}
  IN IF later = {} THEN 0 ELSE Min(later)

\* The loop of applyToSession that stops at the first failure.
applyFromAbortOnFailure(w, c, pos, ok) ==
  LET k == IF ok THEN nextIssuable(w, pos) ELSE 0 IN
  IF k # 0
  THEN sendOn([w EXCEPT !.proc[c] = [pc |-> "apply", pos |-> k, applied |-> @.applied],
                        !.issued[c] = Append(@, k)],
              c, "bp", k)
  ELSE [w EXCEPT !.appliedBreakpoints = MapSet(@, c, w.proc[c].applied),
                 !.proc[c] = [pc |-> "done", pos |-> 0, applied |-> <<>>]]

\* The loop of applyToSession from the entry after pos: the next issuable
\* entry is given to the session's set*Breakpoint, which sends breakpoint_set;
\* when the iterator ends the applied list is stored. ok tells whether the
\* entry at pos was installed.
applyFrom(w, c, pos, ok) ==
  LET k == nextIssuable(w, pos) IN
  IF k # 0
  THEN sendOn([w EXCEPT !.proc[c] = [pc |-> "apply", pos |-> k, applied |-> @.applied],
                        !.issued[c] = Append(@, k)],
              c, "bp", k)
  ELSE [w EXCEPT !.appliedBreakpoints = MapSet(@, c, w.proc[c].applied),
                 !.proc[c] = [pc |-> "done", pos |-> 0, applied |-> <<>>]]

\* pendingBreakpoints.count
count(w) == Cardinality({k \in DOMAIN w.pendingBreakpoints :
                           ~w.pendingBreakpoints[k].removed})

\* main's connection handler after createSession has returned.
afterCreateSession(w, c) ==
  IF count(w) > 0 THEN applyFrom(w, c, 0, TRUE)
  ELSE [w EXCEPT !.proc[c].pc = "done"]

\* initialize giving up when a setFeature fails: createSession rejects and
\* main's handler ends.
afterFeatureAbortOnFailure(w, c, i) ==
  IF w.conns[c].waiters[i].status = "Resolved" /\ ~w.conns[c].waiters[i].resp.err
  THEN IF i < NumFeatures THEN sendOn(w, c, "feature", i + 1)
       ELSE afterCreateSession(registerSession(w, c), c)
  ELSE [w EXCEPT !.proc[c].pc = "done"]

\* The continuation of setFeature number i: the next setFeature, or the rest
\* of createSession and of main's handler.
afterFeature(w, c, i) ==
  IF i < NumFeatures THEN sendOn(w, c, "feature", i + 1)
  ELSE afterCreateSession(registerSession(w, c), c)

\* The continuation that tries the entry at pos again when it failed.
afterBreakpointSetRetry(w, c, pos, ok) ==
  applyFrom(IF ok THEN [w EXCEPT !.proc[c].applied = Append(@, pos)] ELSE w,
            c, IF ok THEN pos ELSE pos - 1, ok)

\* The continuation that records an installed entry and visits it again.
afterBreakpointSetRepeat(w, c, pos, ok) ==
  applyFrom(IF ok THEN [w EXCEPT !.proc[c].applied = Append(@, pos)] ELSE w,
            c, IF ok THEN pos - 1 ELSE pos, ok)

\* The continuation of the breakpoint_set sent for the pending entry at pos.
afterBreakpointSet(w, c, pos, ok) ==
  applyFrom(IF ok THEN [w EXCEPT !.proc[c].applied = Append(@, pos)] ELSE w,
            c, pos, ok)

\* handleStepResponse
handleStepResponse(w, c, resp) ==
  [w EXCEPT !.sess[c].status = IF resp.status # "none" THEN resp.status ELSE "break"]

\* The continuation of the call whose promise was settled: what the awaiting
\* function does with the response or the rejection.
continuation(w, c, call) ==
  LET op == w.ops[c][call]
      wt == w.conns[c].waiters[call]
      resolved == wt.status = "Resolved"
  IN CASE op.kind = "feature" -> afterFeature(w, c, op.arg)
       [] op.kind = "bp" -> afterBreakpointSet(w, c, op.arg, resolved /\ ~wt.resp.err)
       [] op.kind = "run" -> IF resolved THEN handleStepResponse(w, c, wt.resp) ELSE w
       [] op.kind = "stop" -> IF resolved THEN [w EXCEPT !.sess[c].status = "stopped"] ELSE w
       [] OTHER -> w

\* addLineBreakpoint storing the entry disabled.
addLineBreakpointDisabled(w, target, hit) ==
  [w EXCEPT !.breakpointIdCounter = @ + 1,
            !.pendingBreakpoints =
               Append(@, [enabled |-> FALSE, target |-> target, hit |-> hit,
                          removed |-> FALSE])]

\* addLineBreakpoint: the entry gets the next id and is enabled. target
\* tells whether the file is non-empty, hit whether hit options were given.
addLineBreakpoint(w, target, hit) ==
  [w EXCEPT !.breakpointIdCounter = @ + 1,
            !.pendingBreakpoints =
               Append(@, [enabled |-> TRUE, target |-> target, hit |-> hit,
                          removed |-> FALSE])]

\* removeBreakpoint: the Map entry is deleted; its position stays behind so
\* that a running iterator passes over it.
removeBreakpoint(w, p) ==
  IF p \in DOMAIN w.pendingBreakpoints
  THEN [w EXCEPT !.pendingBreakpoints[p].removed = TRUE]
  ELSE w

setBreakpointEnabled(w, p, enabled) ==
  IF p \in DOMAIN w.pendingBreakpoints /\ ~w.pendingBreakpoints[p].removed
  THEN [w EXCEPT !.pendingBreakpoints[p].enabled = enabled]
  ELSE w

\* this.pendingBreakpoints.get(id) finds an entry.
hasPending(w, p) ==
  p \in DOMAIN w.pendingBreakpoints /\ ~w.pendingBreakpoints[p].removed

\* The pending branch of update_breakpoint storing the hit options too.
updatePendingWithHit(w, p, state, hit) ==
  LET w1 == IF state # "none" THEN setBreakpointEnabled(w, p, state = "enabled") ELSE w
  IN [w |-> IF hit /\ hasPending(w, p)
            THEN [w1 EXCEPT !.pendingBreakpoints[p].hit = TRUE] ELSE w1,
      ok |-> (state # "none" \/ hit) /\ hasPending(w, p)]

\* The pending branch of update_breakpoint: state is "enabled", "disabled"
\* or "none" (not given), hit tells whether hit_value or hit_condition is
\* given. The world it leaves and the success it returns.
updatePending(w, p, state, hit) ==
  IF state # "none"
  THEN [w |-> setBreakpointEnabled(w, p, state = "enabled"), ok |-> hasPending(w, p)]
  ELSE [w |-> w, ok |-> FALSE]

\* -------------------------------------------------------- attach actions
\* The attach is followed command by command on one connection; sessions
\* side by side are the manager actions' part. A tool call names no session
\* or an id no session has.
AttachIds == {1}
ToolSessionIds == {NoId, 2}
PendingIds == 1..MaxPending
UpdateStates == {"enabled", "disabled", "none"}

\* The server accepts a socket and builds its DbgpConnection.
Accept(c) ==
  /\ c = accepts + 1
  /\ NoMicrotask
  /\ SetWorld([World EXCEPT !.accepts = c])
  /\ mlast' = NoEvent
  /\ UNCHANGED <<lastStatus, pinned, toolCalls>>
  /\ UNCHANGED <<connVars, codecVars, argVars>>

\* The engine's init frame arrives on connection c.
InitFrame(c) ==
  /\ Accepted(c)
  /\ ~conns[c].closed
  /\ initPacket[c] = NoPacket
  /\ NoMicrotask
  /\ SetWorld(initReceived(World, c, FirstRecord))
  /\ mlast' = NoEvent
  /\ UNCHANGED <<lastStatus, pinned, toolCalls>>
  /\ UNCHANGED <<connVars, codecVars, argVars>>

\* A response frame arrives on connection c, as the first frame of a chunk
\* or as a further frame of the chunk being processed. It answers the
\* outstanding command or carries an id nothing waits for (0).
Response(c) ==
  /\ sess[c].created
  /\ ~conns[c].closed
  /\ NoMicrotask \/ (mlast.type = "response" /\ mlast.id = c)
  /\ \E tx \in DOMAIN conns[c].pendingCommands \cup {0}, err \in BOOLEAN,
        st \in RespStatus :
       LET resp == [tx |-> tx, err |-> err, status |-> st] IN
       /\ tx = 0 => ~err
       /\ SetWorld(responseListener([World EXCEPT !.conns[c] = handleResponse(@, resp)],
                                    c, st))
       /\ lastStatus' = [lastStatus EXCEPT ![c] = IF st # "none" THEN st ELSE @]
  /\ mlast' = [type |-> "response", id |-> c, res |-> NoId]
  /\ UNCHANGED <<pinned, toolCalls>>
  /\ UNCHANGED <<connVars, codecVars, argVars>>

\* The timer of the outstanding command of connection c expires.
Timer(c) ==
  /\ NoMicrotask
  /\ \E t \in conns[c].timers :
       SetWorld([World EXCEPT !.conns[c] = timeoutCallback(@, t)])
  /\ mlast' = NoEvent
  /\ UNCHANGED <<lastStatus, pinned, toolCalls>>
  /\ UNCHANGED <<connVars, codecVars, argVars>>

\* The event loop runs the continuation of the call of connection c that was
\* settled first. The promise is not looked at again afterwards.
Continue(c) ==
  /\ conns[c].microQ # <<>>
  /\ LET call == Head(conns[c].microQ)
         w1 == continuation([World EXCEPT !.conns[c].microQ = Tail(@)], c, call)
     IN SetWorld([w1 EXCEPT !.conns[c].waiters[call] =
                               [status |-> "done", resp |-> NoResponse]])
  /\ mlast' = NoEvent
  /\ UNCHANGED <<lastStatus, pinned, toolCalls>>
  /\ UNCHANGED <<connVars, codecVars, argVars>>

\* The set_breakpoint tool: with no session resolved the breakpoint is added
\* to the pending store, else breakpoint_set is sent on the session. mlast
\* keeps the result: res 1 is pending: true, id the number of the pending_ id.
ToolSetBreakpoint(sid, target, hit) ==
  /\ toolCalls < MaxTools
  /\ NoMicrotask
  /\ LET r == resolveSession(World, sid) IN
       IF r.res = NoId
       THEN /\ breakpointIdCounter < MaxPending
            /\ SetWorld(addLineBreakpoint(r.w, target, hit))
            /\ mlast' = [type |-> "setBreakpoint",
                         id |-> addLineBreakpoint(r.w, target, hit).breakpointIdCounter,
                         res |-> 1]
       ELSE /\ SetWorld(sendOn(r.w, r.res, "cmd", 0))
            /\ mlast' = [type |-> "setBreakpoint", id |-> NoId, res |-> 0]
  /\ toolCalls' = toolCalls + 1
  /\ UNCHANGED <<lastStatus, pinned>>
  /\ UNCHANGED <<connVars, codecVars, argVars>>

\* The update_breakpoint tool on a pending id. mlast keeps whether a state
\* was given and the success returned.
ToolUpdatePending(p, state, hit) ==
  /\ toolCalls < MaxTools
  /\ NoMicrotask
  /\ LET r == updatePending(World, p, state, hit) IN
       /\ SetWorld(r.w)
       /\ mlast' = [type |-> IF state # "none" THEN "update" ELSE "updateNoState",
                    id |-> p, res |-> IF r.ok THEN 1 ELSE 0]
  /\ toolCalls' = toolCalls + 1
  /\ UNCHANGED <<lastStatus, pinned>>
  /\ UNCHANGED <<connVars, codecVars, argVars>>

\* The remove_breakpoint tool on a pending id.
ToolRemove(p) ==
  /\ toolCalls < MaxTools
  /\ NoMicrotask
  /\ SetWorld(removeBreakpoint(World, p))
  /\ toolCalls' = toolCalls + 1
  /\ mlast' = NoEvent
  /\ UNCHANGED <<lastStatus, pinned>>
  /\ UNCHANGED <<connVars, codecVars, argVars>>

\* The continue and stop tools, called without a session id.
ToolExecution(kind) ==
  /\ toolCalls < MaxTools
  /\ NoMicrotask
  /\ LET r == resolveSession(World, NoId) IN
       /\ r.res # NoId
       /\ SetWorld(sendOn(r.w, r.res, kind, 0))
  /\ toolCalls' = toolCalls + 1
  /\ mlast' = NoEvent
  /\ UNCHANGED <<lastStatus, pinned>>
  /\ UNCHANGED <<connVars, codecVars, argVars>>

AttachNext ==
  \/ \E c \in AttachIds : Accept(c)
  \/ \E c \in AttachIds : InitFrame(c)
  \/ \E c \in AttachIds : Response(c)
  \/ \E c \in AttachIds : Timer(c)
  \/ \E c \in AttachIds : Close(c)
  \/ \E c \in AttachIds : Continue(c)
  \/ \E sid \in ToolSessionIds, target \in BOOLEAN : ToolSetBreakpoint(sid, target, FALSE)
  \/ \E p \in PendingIds, state \in {"enabled", "disabled"} :
       ToolUpdatePending(p, state, FALSE)
  \/ \E p \in PendingIds : ToolRemove(p)
  \/ \E kind \in {"run", "stop"} : ToolExecution(kind)

AttachSpec == Init /\ [][AttachNext]_vars

\* ------------------------------------------- a session after a session
\* Two connections one after the other: the second is accepted when the
\* first has closed and main's handler for it has returned. What the single
\* attach above varies and the pending store does not depend on is fixed
\* here: a response answers the outstanding command and carries no status,
\* and the client only calls set_breakpoint and the tools on pending ids.
ReattachIds == {1, 2}

AcceptNext(c) ==
  /\ c > 1 => conns[c - 1].closed /\ proc[c - 1].pc = "done"
  /\ Accept(c)

Answer(c) ==
  /\ Response(c)
  /\ lastStatus' = lastStatus
  /\ conns'[c].pendingCommands # conns[c].pendingCommands

ReattachNext ==
  \/ \E c \in ReattachIds : AcceptNext(c)
  \/ \E c \in ReattachIds : InitFrame(c)
  \/ \E c \in ReattachIds : Answer(c)
  \/ \E c \in ReattachIds : Timer(c)
  \/ \E c \in ReattachIds : Close(c)
  \/ \E c \in ReattachIds : Continue(c)
  \/ \E sid \in {NoId, 3}, target \in BOOLEAN : ToolSetBreakpoint(sid, target, FALSE)
  \/ \E p \in PendingIds, state \in {"enabled", "disabled"} :
       ToolUpdatePending(p, state, FALSE)
  \/ \E p \in PendingIds : ToolRemove(p)

ReattachSpec == Init /\ [][ReattachNext]_vars

\* ---------------------------------------------------------------------
\* The pending store under every request of its tools, hit options
\* included, next to one connection whose session is created, answers its
\* commands and ends.
\* ---------------------------------------------------------------------

PendingNext ==
  \/ Accept(1)
  \/ InitFrame(1)
  \/ Answer(1)
  \/ Close(1)
  \/ Continue(1)
  \/ \E sid \in ToolSessionIds, target \in BOOLEAN, hit \in BOOLEAN :
       ToolSetBreakpoint(sid, target, hit)
  \/ \E p \in PendingIds, state \in UpdateStates, hit \in BOOLEAN :
       ToolUpdatePending(p, state, hit)
  \/ \E p \in PendingIds : ToolRemove(p)

PendingSpec == Init /\ [][PendingNext]_vars

\* ---------------------------------------------------------------------
\* Two connections open at the same time, each with its session; their
\* negotiation is one step, and tools send execution commands to the session
\* they name.
\* ---------------------------------------------------------------------

PairIds == {1, 2}

\* The continue tool called with a session id.
ToolExecutionOn(sid) ==
  /\ toolCalls < MaxTools
  /\ NoMicrotask
  /\ LET r == resolveSession(World, sid) IN
       /\ r.res # NoId
       /\ SetWorld(sendOn(r.w, r.res, "run", 0))
  /\ toolCalls' = toolCalls + 1
  /\ mlast' = [type |-> "run", id |-> sid, res |-> NoId]
  /\ UNCHANGED <<lastStatus, pinned>>
  /\ UNCHANGED <<connVars, codecVars, argVars>>

PairNext ==
  \/ \E c \in PairIds : MgrAttach(c)
  \/ \E c \in PairIds : MgrInitialized(c)
  \/ \E sid \in PairIds : ToolExecutionOn(sid)
  \/ \E c \in PairIds : Response(c)
  \/ \E c \in PairIds : Timer(c)
  \/ \E c \in PairIds : Close(c)
  \/ \E c \in PairIds : Continue(c)

PairSpec == Init /\ [][PairNext]_vars

\* ---------------------------------------------------------------------
\* The operations of a session that send one command and turn its response
\* into what the caller gets.
\* ---------------------------------------------------------------------

SessionOps == {"breakpoint_set", "breakpoint_remove", "breakpoint_update",
               "breakpoint_list", "property_get", "property_set", "eval", "source"}

\* What a session operation gives its caller for a resolved response: a
\* thrown Error (shape error), null, false or a value; res tells what of the
\* engine's error it carries: 2 code and message, 1 the message alone,
\* 0 nothing. An error response is taken to have no success attribute.
operationOutcome(kind, resp) ==
  IF ~resp.err THEN [shape |-> "value", res |-> 0]
  ELSE CASE kind \in {"breakpoint_set", "eval"} -> [shape |-> "error", res |-> 1]
         [] kind \in {"breakpoint_remove", "breakpoint_update", "property_set"} ->
              [shape |-> "false", res |-> 0]
         [] kind \in {"property_get", "source"} -> [shape |-> "null", res |-> 0]
         [] OTHER -> [shape |-> "value", res |-> 0]

OutcomeShapes == {"value", "error", "null", "false", "rejected"}

\* A tool calls an operation of the active session.
ToolOperation(kind) ==
  /\ toolCalls < MaxOps
  /\ NoMicrotask
  /\ LET r == resolveSession(World, NoId) IN
       /\ r.res # NoId
       /\ SetWorld(sendOn(r.w, r.res, kind, 0))
  /\ toolCalls' = toolCalls + 1
  /\ mlast' = NoEvent
  /\ UNCHANGED <<lastStatus, pinned>>
  /\ UNCHANGED <<connVars, codecVars, argVars>>

\* The operation whose promise was settled first resumes after its await
\* and returns or throws to its caller; mlast keeps the outcome.
Return(c) ==
  /\ conns[c].microQ # <<>>
  /\ LET call == Head(conns[c].microQ)
         wt == conns[c].waiters[call]
         out == IF wt.status = "Resolved"
                THEN operationOutcome(ops[c][call].kind, wt.resp)
                ELSE [shape |-> "rejected", res |-> 0]
     IN /\ SetWorld([World EXCEPT !.conns[c].microQ = Tail(@),
                                  !.conns[c].waiters[call] =
                                     [status |-> "done", resp |-> NoResponse]])
        /\ mlast' = [type |-> out.shape, id |-> c, res |-> out.res]
  /\ UNCHANGED <<lastStatus, pinned, toolCalls>>
  /\ UNCHANGED <<connVars, codecVars, argVars>>

OpsNext ==
  \/ MgrAttach(1)
  \/ MgrInitialized(1)
  \/ \E kind \in SessionOps : ToolOperation(kind)
  \/ Answer(1)
  \/ Timer(1)
  \/ Close(1)
  \/ Return(1)

OpsSpec == Init /\ [][OpsNext]_vars

\* ---------------------------------------------------------------------
\* The negotiation of one connection, every setFeature answered with or
\* without an engine error, timed out, or cut by the close of the socket,
\* and the application of the pending breakpoints that follows it.
\* ---------------------------------------------------------------------

\* setFeature resumes after its await and returns to initialize, which goes
\* on; mlast keeps the number of the feature and whether true would be
\* returned (the response resolved without error).
SetFeatureReturns(c) ==
  /\ conns[c].microQ # <<>>
  /\ ops[c][Head(conns[c].microQ)].kind = "feature"
  /\ LET call == Head(conns[c].microQ)
         wt == conns[c].waiters[call]
         w1 == continuation([World EXCEPT !.conns[c].microQ = Tail(@)], c, call)
     IN /\ SetWorld([w1 EXCEPT !.conns[c].waiters[call] =
                                  [status |-> "done", resp |-> NoResponse]])
        /\ mlast' = [type |-> "setFeature", id |-> ops[c][call].arg,
                     res |-> IF wt.status = "Resolved" /\ ~wt.resp.err THEN 1 ELSE 0]
  /\ UNCHANGED <<lastStatus, pinned, toolCalls>>
  /\ UNCHANGED <<connVars, codecVars, argVars>>

NegotiateNext ==
  \/ Accept(1)
  \/ InitFrame(1)
  \/ Response(1)
  \/ Timer(1)
  \/ Close(1)
  \/ SetFeatureReturns(1)
  \/ Continue(1)
  \/ \E target \in BOOLEAN : ToolSetBreakpoint(NoId, target, FALSE)

NegotiateSpec == Init /\ [][NegotiateNext]_vars

\* ---------------------------------------------------------------------
\* One connection receiving frames of every root element while commands
\* are outstanding and queued.
\* ---------------------------------------------------------------------

FrameRoots == {"stream", "other"}

\* handleMessage for a frame whose root element is neither init nor
\* response: the world it leaves and the event the connection emits. The
\* listener of stream (DebugSession) emits output and sends nothing.
handleMessage(w, c, root) ==
  [w |-> w, event |-> IF root = "stream" THEN "stream" ELSE "none"]

\* A frame with root element root arrives on connection c; mlast keeps the
\* root and the event emitted.
Frame(c, root) ==
  /\ Accepted(c)
  /\ ~conns[c].closed
  /\ NoMicrotask \/ (mlast.type = "response" /\ mlast.id = c)
  /\ LET r == handleMessage(World, c, root) IN
       /\ SetWorld(r.w)
       /\ mlast' = [type |-> "frame", id |-> c, res |-> NoId,
                    root |-> root, event |-> r.event]
  /\ UNCHANGED <<lastStatus, pinned, toolCalls>>
  /\ UNCHANGED <<connVars, codecVars, argVars>>

FrameNext ==
  \/ Accept(1)
  \/ InitFrame(1)
  \/ \E root \in FrameRoots : Frame(1, root)
  \/ Answer(1)
  \/ Timer(1)
  \/ Close(1)
  \/ Continue(1)
  \/ \E kind \in {"run"} : ToolExecution(kind)

FrameSpec == Init /\ [][FrameNext]_vars

\* ---------------------------------------------------------------------
\* One connection attaching while the client stores breakpoints and asks
\* for execution, every tool called without a session id.
\* ---------------------------------------------------------------------

RaceNext ==
  \/ Accept(1)
  \/ InitFrame(1)
  \/ Answer(1)
  \/ Timer(1)
  \/ Close(1)
  \/ Continue(1)
  \/ \E target \in BOOLEAN : ToolSetBreakpoint(NoId, target, FALSE)
  \/ ToolExecution("run")

RaceSpec == Init /\ [][RaceNext]_vars

\* ---------------------------------------------------------------------
\* An engine that sends a further init frame on a connection whose first
\* attach has run to its end.
\* ---------------------------------------------------------------------

\* The init frames handled on connection c: each starts an initialize.
initFrames(c) ==
  Cardinality({i \in DOMAIN ops[c] : ops[c][i] = [kind |-> "feature", arg |-> 1]})

\* A further init frame arrives on connection c.
InitFrameAgain(c) ==
  /\ Accepted(c)
  /\ ~conns[c].closed
  /\ initPacket[c] # NoPacket
  /\ proc[c].pc = "done"
  /\ initFrames(c) < MaxInits
  /\ NoMicrotask
  /\ \E rec \in InitRecords : SetWorld(initReceived(World, c, rec))
  /\ mlast' = [type |-> "init", id |-> c, res |-> NoId]
  /\ UNCHANGED <<lastStatus, pinned, toolCalls>>
  /\ UNCHANGED <<connVars, codecVars, argVars>>

ReinitNext ==
  \/ Accept(1)
  \/ InitFrame(1)
  \/ InitFrameAgain(1)
  \/ Answer(1)
  \/ Timer(1)
  \/ Close(1)
  \/ Continue(1)
  \/ ToolSetBreakpoint(NoId, TRUE, FALSE)

ReinitSpec == Init /\ [][ReinitNext]_vars

\* ------------------------------------------------------------------ claims
WrittenCalls == {written[i].call : i \in DOMAIN written}

\* C1: in every reachable state the map of outstanding commands holds at most
\* one entry.
C1_SingleOutstanding == MapSize(pendingCommands) <= 1
C1_Witness ==
  /\ MapSize(pendingCommands) = 1
  /\ Len(commandQueue) >= 2
  /\ \E c \in DOMAIN waiters : waiters[c].status = "Timeout"

\* C2 as stated: no command is written while the response to the previously
\* written command has not been parsed, timer expiries included.
C2_NextWriteOnlyAfterResponse ==
  \A i \in 1..(Len(written) - 1) : waiters[written[i].call].status = "Resolved"
\* C2 amended: at most one written command is outstanding; every command
\* written before the last one has had its response parsed or its timer
\* expired.
C2_OneWrittenOutstanding ==
  /\ Cardinality({i \in DOMAIN written : waiters[written[i].call].status = "waiting"}) <= 1
  /\ \A i \in 1..(Len(written) - 1) :
       waiters[written[i].call].status \in {"Resolved", "Timeout"}
C2_Witness ==
  /\ Len(written) >= 3
  /\ \E i \in DOMAIN written : waiters[written[i].call].status = "Timeout"
  /\ \E i \in DOMAIN written : waiters[written[i].call].status = "Resolved"
  /\ \E i \in DOMAIN written : waiters[written[i].call].status = "waiting"

\* C3: commands are written in the order their sendCommand calls were made; a
\* command issued while another is outstanding is queued behind the earlier
\* ones and written only after every earlier call has been written and has
\* completed; the waiters complete in issue order.
C3_IssueOrder ==
  /\ \A i \in DOMAIN written : written[i].call = i
  /\ \A i \in DOMAIN commandQueue : commandQueue[i] = Len(written) + i
  /\ commandQueue # <<>> => waiters[written[Len(written)].call].status = "waiting"
  /\ \A i \in DOMAIN written : \A c \in 1..(written[i].call - 1) :
       c \in WrittenCalls /\ waiters[c].status # "waiting"
  /\ \A i, j \in DOMAIN settled : i < j => settled[i] < settled[j]
C3_Witness ==
  /\ Len(written) >= 3
  /\ commandQueue # <<>>
  /\ Len(settled) >= 2

\* C4: the transaction ids written to the socket are strictly increasing over
\* the connection's lifetime.
C4_TxIdsIncrease ==
  \A i, j \in DOMAIN written : i < j => written[i].tx < written[j].tx
C4_Witness ==
  /\ Len(written) >= 3
  /\ \E c \in DOMAIN waiters : waiters[c].status = "Timeout"
  /\ \E c \in DOMAIN waiters : waiters[c].status = "Resolved"

\* C5: a response frame whose id matches a pending waiter completes exactly
\* that waiter with that response and removes only that entry; a response whose
\* id matches no pending waiter completes no waiter and leaves the map alone.
C5_Correlation ==
  [][lastEvent'.type = "response" =>
       LET tx == lastEvent'.tx IN
       IF tx \in DOMAIN pendingCommands
       THEN LET c == pendingCommands[tx] IN
            /\ waiters[c].status = "waiting"
            /\ waiters'[c] = [status |-> "Resolved",
                              resp |-> [tx |-> tx, err |-> lastEvent'.err]]
            /\ DOMAIN waiters' = DOMAIN waiters
            /\ \A d \in DOMAIN waiters : d # c => waiters'[d] = waiters[d]
            /\ settled' = Append(settled, c)
            /\ tx \notin DOMAIN pendingCommands'
            /\ \A t \in DOMAIN pendingCommands : t # tx =>
                 t \in DOMAIN pendingCommands' /\ pendingCommands'[t] = pendingCommands[t]
       ELSE /\ waiters' = waiters
            /\ settled' = settled
            /\ pendingCommands' = pendingCommands
            /\ written' = written]_vars
\* a late reply to a command that timed out has just been dropped while
\* another command is pending, and a matching reply was delivered before
C5_Witness ==
  /\ lastEvent.type = "response"
  /\ lastEvent.call = 0
  /\ \E w \in Range(written) : w.tx = lastEvent.tx /\ waiters[w.call].status = "Timeout"
  /\ MapSize(pendingCommands) = 1
  /\ \E c \in DOMAIN waiters : waiters[c].status = "Resolved" /\ waiters[c].resp.tx = c

\* C6: when the timer of an outstanding command expires, only that command's
\* waiter fails with Timeout, its entry is removed, the connection stays open
\* and the next queued command is written; a later command completes normally
\* when its own response arrives.
C6_TimeoutIsolation ==
  [][/\ lastEvent'.type = "timeout" =>
          LET c == lastEvent'.call
              tx == lastEvent'.tx IN
          /\ waiters[c].status = "waiting"
          /\ waiters'[c].status = "Timeout"
          /\ DOMAIN waiters' = DOMAIN waiters
          /\ \A d \in DOMAIN waiters : d # c => waiters'[d] = waiters[d]
          /\ tx \notin DOMAIN pendingCommands'
          /\ ~closed'
          /\ closeEmitted' = closeEmitted
          /\ IF commandQueue # <<>>
             THEN /\ written' = Append(written, [call |-> Head(commandQueue),
                                                 tx |-> transactionId + 1])
                  /\ commandQueue' = Tail(commandQueue)
                  /\ DOMAIN pendingCommands' = {transactionId + 1}
             ELSE /\ written' = written
                  /\ pendingCommands' = EmptyMap
     /\ (/\ lastEvent'.type = "response"
         /\ lastEvent'.tx \in DOMAIN pendingCommands
         /\ \E d \in DOMAIN waiters : waiters[d].status = "Timeout") =>
          waiters'[pendingCommands[lastEvent'.tx]].status = "Resolved"]_vars
C6_Witness ==
  /\ ~closed
  /\ \E c, d \in DOMAIN waiters :
       /\ c < d
       /\ waiters[c].status = "Timeout"
       /\ waiters[d].status = "Resolved"
       /\ c \in WrittenCalls /\ d \in WrittenCalls

\* C7: on socket close every pending waiter fails with ConnectionClosed, the
\* pending map and the queue are emptied, the close flag is set and close is
\* emitted; every later sendCommand fails with ConnectionClosed and changes
\* neither the socket, the counter, the map nor the queue.
C7_Close ==
  [][/\ lastEvent'.type = "close" =>
          /\ closed'
          /\ pendingCommands' = EmptyMap
          /\ commandQueue' = <<>>
          /\ closeEmitted' = closeEmitted + 1
          /\ \A tx \in DOMAIN pendingCommands :
               /\ waiters[pendingCommands[tx]].status = "waiting"
               /\ waiters'[pendingCommands[tx]].status = "ConnectionClosed"
     /\ (closed /\ lastEvent'.type = "send") =>
          /\ Len(waiters') = Len(waiters) + 1
          /\ waiters'[Len(waiters')].status = "ConnectionClosed"
          /\ written' = written
          /\ transactionId' = transactionId
          /\ pendingCommands' = pendingCommands
          /\ commandQueue' = commandQueue]_vars
C7_Witness ==
  /\ closed
  /\ closeEmitted = 1
  /\ lastEvent.type = "send"
  /\ \E c \in WrittenCalls : waiters[c].status = "ConnectionClosed"
  /\ waiters[Len(waiters)].status = "ConnectionClosed"
  /\ Len(waiters) \notin WrittenCalls

\* C8: no waiter outlives a close event: after the close no sendCommand future
\* of the connection is unsettled, the queued ones included.
C8_NoWaiterOutlivesClose ==
  closed => \A c \in DOMAIN waiters : waiters[c].status # "waiting"

\* C9 as stated: the next command is never written before the continuation of
\* the completed waiter has run.
C9_WriteAfterContinuation ==
  \A i \in 1..(Len(written) - 1) :
    /\ waiters[written[i].call].status # "waiting"
    /\ written[i].call \notin Range(microQ)
\* C9 amended: a queued command is dequeued and written only by the handler
\* that completes the previous command, after that waiter's resolve or reject
\* was called and its entry removed; the waiter's continuation is still queued
\* as a microtask at the write.
C9_DequeueOnCompletion ==
  [][(commandQueue' # commandQueue /\ ~closed') =>
       /\ lastEvent'.type \in {"response", "timeout", "send"}
       /\ lastEvent'.type = "send" =>
            /\ commandQueue' = Append(commandQueue, Len(waiters'))
            /\ written' = written
       /\ lastEvent'.type # "send" =>
            LET prev == written[Len(written)] IN
            /\ commandQueue' = Tail(commandQueue)
            /\ written' = Append(written, [call |-> Head(commandQueue),
                                           tx |-> transactionId + 1])
            /\ lastEvent'.call = prev.call
            /\ waiters[prev.call].status = "waiting"
            /\ waiters'[prev.call].status \in {"Resolved", "Timeout"}
            /\ prev.tx \notin DOMAIN pendingCommands'
            /\ microQ' = Append(microQ, prev.call)]_vars
C9_Witness ==
  /\ lastEvent.type = "response"
  /\ lastEvent.call # 0
  /\ Len(written) >= 2
  /\ written[Len(written) - 1].call = lastEvent.call
  /\ lastEvent.call \in Range(microQ)
  /\ waiters[written[Len(written)].call].status = "waiting"

\* C10 as stated: whatever the chunking, the payloads given to handleMessage
\* are exactly the payloads that were framed, for any payloads.
C10_RoundTripAnyPayload ==
  fed = Len(wire) => emitted = payloads
\* C10 amended: whatever the chunking, the payloads given to handleMessage are
\* exactly the non-empty payloads that were framed, in order, each once and
\* whole; after any number of delivered bytes they are the non-empty payloads
\* of the frames completely delivered. A frame of an empty payload (length 0)
\* gives no payload.
NonEmpty(p) == p # <<>>
FramesWithin(n) ==
  Cardinality({k \in 1..Len(payloads) : Len(WireOf(SubSeq(payloads, 1, k))) <= n})
C10_RoundTripNonEmpty ==
  /\ emitted = SelectSeq(SubSeq(payloads, 1, FramesWithin(fed)), NonEmpty)
  /\ fed = Len(wire) => emitted = SelectSeq(payloads, NonEmpty) /\ buffer = <<>>
C10_Witness ==
  /\ fed = Len(wire)
  /\ splitSeen
  /\ Len(payloads) = 2
  /\ Len(payloads[1]) = LongLen /\ NUL \in Range(payloads[1])
  /\ payloads[2] = <<233>>
  /\ emitted = payloads


\* --------------------------------------------------- session manager claims
\* The election rules: the first session of the map in break status, else
\* the first session of the map, else none.
Elect(seq, ss) ==
  LET inBreak == SelectSeq(seq, LAMBDA id : ss[id].status = "break") IN
  IF inBreak # <<>> THEN Head(inBreak) ELSE First(seq)

\* C12: in every reachable state of the session manager activeSessionId is
\* null or the id of a session present in the sessions map.
C12_ActiveInMap == activeSessionId = NoId \/ activeSessionId \in Range(sessions)

\* The active session has closed while another session was registered.
C12_Witness ==
  /\ mlast.type = "close"
  /\ sessionEnded[mlast.id] > 0
  /\ activeSessionId # NoId
  /\ activeSessionId # mlast.id

\* C14: without set_active, whenever the manager changes activeSessionId the
\* new value is the one the election rules give: the first registered session
\* in break status, else the first registered session, else none.
C14_ElectionPrefersBreak ==
  [][activeSessionId' # activeSessionId /\ mlast'.type # "setActive"
       => activeSessionId' = Elect(sessions', sess')]_vars

\* C15: set_active(id) succeeds iff id is in the sessions map; on success
\* activeSessionId is id, on failure it is unchanged; and while the session
\* of the last successful set_active has not closed, it stays the active
\* session and every implicit resolution returns it.
C15_SetActiveStep ==
  mlast'.type = "setActive" =>
    /\ (mlast'.res = 1) = (mlast'.id \in Range(sessions))
    /\ mlast'.res = 1 => activeSessionId' = mlast'.id
    /\ mlast'.res = 0 => activeSessionId' = activeSessionId

C15_PinnedStep ==
  pinned' # NoId =>
    /\ activeSessionId' = pinned'
    /\ pinned' \in Range(sessions')
    /\ mlast'.type = "resolve" => mlast'.res = pinned'

C15_SetActive == [][C15_SetActiveStep /\ C15_PinnedStep]_vars

\* An implicit resolution returns the session of a set_active although it is
\* not the one the manager would have chosen itself.
C15_Witness ==
  /\ mlast.type = "resolve"
  /\ pinned # NoId
  /\ mlast.res = pinned
  /\ pinned # First(sessions)

\* C16: when the connection of a registered session closes, its entry leaves
\* the map; if it was the active session the new active session is the one
\* the election rules give (a session in break status before an earlier one
\* that is not), and if it was not, activeSessionId is unchanged.
C16_CloseReelects ==
  [][mlast'.type = "close" /\ mlast'.id \in Range(sessions) =>
       /\ mlast'.id \notin Range(sessions')
       /\ IF activeSessionId = mlast'.id
          THEN activeSessionId' = Elect(sessions', sess')
          ELSE activeSessionId' = activeSessionId]_vars

\* ------------------------------------------------------------ attach claims
\* C11: while its connection is open, a session's status is the status
\* attribute of the most recent response frame that carried one ('starting'
\* if none has); no operation sets it to another value.
C11_StatusIsLastResponseStatus ==
  \A c \in Ids : sess[c].created /\ ~conns[c].closed => sess[c].status = lastStatus[c]

\* The setFeature calls made on connection c whose continuation has run.
FeaturesAttempted(c) ==
  {i \in DOMAIN ops[c] : ops[c][i].kind = "feature"
                           /\ conns[c].waiters[i].status = "done"}

\* C13: every session in the sessions map has an init record, and
\* sessionCreated is emitted for a session only after its init frame was
\* received and the feature negotiation was attempted.
C13_RegisteredAfterInit ==
  \A c \in Ids :
    /\ c \in Range(sessions) => initPacket[c] # NoPacket
    /\ sessionCreated[c] > 0 =>
         initPacket[c] # NoPacket /\ Cardinality(FeaturesAttempted(c)) = NumFeatures

\* The session is registered after its init frame and its negotiation.
C13_Witness ==
  /\ sessions = <<1>>
  /\ sessionCreated[1] = 1
  /\ initPacket[1] # NoPacket
  /\ sess[1].initialized

\* An entry that is in the store and enabled.
Enabled(bp) == ~bp.removed /\ bp.enabled

\* A step of the application of the pending entries to session c, started
\* by createSession's return (pc "init") or resumed by the continuation of a
\* breakpoint_set, whatever its outcome: the session is registered and the
\* first entry after the current position that Sel selects is issued; if
\* there is none, nothing is issued and the run ends.
ApplyStep(c, Sel(_)) ==
  proc[c].pc \in {"init", "apply"} /\ proc'[c] # proc[c] =>
    LET later == {k \in DOMAIN pendingBreakpoints' :
                    k > proc[c].pos /\ Sel(pendingBreakpoints'[k])}
    IN /\ c \in Range(sessions') \/ conns[c].closed
       /\ proc[c].pc = "apply" => sessions' = sessions
       /\ IF later # {}
          THEN issued'[c] = Append(issued[c], Min(later)) /\ proc'[c].pc = "apply"
          ELSE issued'[c] = issued[c] /\ proc'[c].pc = "done"

Occurrences(seq, x) == Cardinality({i \in DOMAIN seq : seq[i] = x})

Passed(c) ==
  (proc[c].pos + 1)..(IF proc'[c].pc = "apply" THEN proc'[c].pos
                      ELSE Len(pendingBreakpoints'))

C19_OneMappingPerPending ==
  \A c \in Ids : \A p \in DOMAIN pendingBreakpoints :
    /\ Occurrences(proc[c].applied, p) <= 1
    /\ c \in DOMAIN appliedBreakpoints => Occurrences(appliedBreakpoints[c], p) <= 1

\* Two pending breakpoints were installed on the session and recorded.
C19_Witness ==
  /\ 1 \in DOMAIN appliedBreakpoints
  /\ appliedBreakpoints[1] = <<1, 2>>

\* C20: once a session has ended and nothing is left to run (no continuation
\* is ready and the application of the pending entries to it is over), the
\* applied store has no entry for its id.
C20_NoMappingAfterEnd ==
  \A c \in Ids :
    sessionEnded[c] > 0 /\ NoMicrotask /\ proc[c].pc = "done"
      => c \notin DOMAIN appliedBreakpoints

\* --------------------------------------------------------- reattach claims
\* The close of a connection leaves the pending store as it is.
CloseKeepsPending ==
  (\E c \in Ids : conns'[c].closed # conns[c].closed) =>
    /\ pendingBreakpoints' = pendingBreakpoints
    /\ breakpointIdCounter' = breakpointIdCounter

C22_RoutedToPending ==
  [][mlast'.type = "setBreakpoint" /\ sessions = <<>> =>
       /\ conns' = conns
       /\ Len(pendingBreakpoints') = Len(pendingBreakpoints) + 1
       /\ SubSeq(pendingBreakpoints', 1, Len(pendingBreakpoints)) = pendingBreakpoints
       /\ Enabled(pendingBreakpoints'[Len(pendingBreakpoints')])
       /\ mlast'.res = 1
       /\ mlast'.id = Len(pendingBreakpoints')
       /\ mlast'.id = breakpointIdCounter']_vars

\* A second breakpoint has been stored as pending with no session registered.
C22_Witness ==
  /\ mlast.type = "setBreakpoint"
  /\ mlast.res = 1
  /\ mlast.id = 2
  /\ sessions = <<>>

\* C23: an update request on a pending id only ever enables or disables.
\* On every step of the update tool no connection changes (no command is
\* written, queued or given a transaction id), no entry is added or
\* dropped, and every entry keeps its target, its hit options and its
\* removal mark; when the request gives no state (it carries hit options
\* alone, or nothing) the returned success is false and the whole store is
\* unchanged.
C23_OnlyEnabledChanges ==
  [][toolCalls' # toolCalls /\ mlast'.type \in {"update", "updateNoState"} =>
       /\ conns' = conns
       /\ sessions' = sessions /\ sess' = sess
       /\ breakpointIdCounter' = breakpointIdCounter
       /\ DOMAIN pendingBreakpoints' = DOMAIN pendingBreakpoints
       /\ \A p \in DOMAIN pendingBreakpoints :
            pendingBreakpoints'[p] =
              [pendingBreakpoints[p] EXCEPT !.enabled = pendingBreakpoints'[p].enabled]
       /\ mlast'.type = "updateNoState" =>
            mlast'.res = 0 /\ pendingBreakpoints' = pendingBreakpoints]_vars

\* A hit-only update of a live entry without hit options was rejected while
\* a session with an outstanding command exists.
C23_Witness ==
  /\ mlast.type = "updateNoState" /\ mlast.res = 0
  /\ mlast.id \in DOMAIN pendingBreakpoints
  /\ ~pendingBreakpoints[mlast.id].removed /\ ~pendingBreakpoints[mlast.id].hit
  /\ sessions # <<>> /\ conns[1].pendingCommands # EmptyMap

\* What the claim lists of a connection and its session: the transaction
\* counter, the outstanding command and its timer, the queue, the waiters
\* and what was written, the close flag, and the session's status.
ConnState(c) == <<conns[c], sess[c].status>>

\* handleResponse, the timeout callback, the close handler or a continuation
\* runs for connection a.
EventOn(a) == Response(a) \/ Timer(a) \/ Close(a) \/ Continue(a)

\* C24: connections are independent. A response, timeout, close or
\* continuation of connection a, and a command sent to a, leave everything
\* of every other connection b as it was (counter, outstanding command,
\* timers, queue, waiters, written commands, session status); and a command
\* sent to an open connection b with nothing outstanding is written in that
\* step whatever a has outstanding or queued.
C24_Independent ==
  [][\A a \in PairIds, b \in PairIds :
       /\ a # b /\ (EventOn(a) \/ ToolExecutionOn(a)) => ConnState(b)' = ConnState(b)
       /\ ToolExecutionOn(b) /\ ~conns[b].closed /\ conns[b].pendingCommands = EmptyMap =>
            /\ Len(conns'[b].written) = Len(conns[b].written) + 1
            /\ conns'[b].commandQueue = <<>>]_vars

\* Connection 1 has a command outstanding and one queued while a command of
\* connection 2 was written; then connection 1 closed, failing the waiter
\* of its outstanding command and none of connection 2.
C24_Witness ==
  /\ conns[1].closed /\ Len(conns[1].waiters) = 2
  /\ conns[1].waiters[1].status = "ConnectionClosed"
  /\ ~conns[2].closed /\ Len(conns[2].written) = 1
  /\ conns[2].pendingCommands # EmptyMap
  /\ conns[2].waiters[1].status = "waiting"
  /\ mlast.type = "close" /\ mlast.id = 1

\* C25: a response carrying an engine error completes its command. When a
\* response frame with an error element answers the outstanding command,
\* the waiter of that command is resolved with the response, error
\* included; the command leaves pendingCommands and its timer is cleared;
\* the connection stays open; and the queue is served as after any
\* response: its first command, if any, is written under the next
\* transaction id and becomes the outstanding one.
C25_ErrorResponseCompletes ==
  [][lastEvent'.type = "response" /\ lastEvent'.err /\ lastEvent'.call # 0 =>
       LET call == lastEvent'.call
           tx == lastEvent'.tx
       IN /\ waiters[call].status = "waiting"
          /\ waiters'[call] = [status |-> "Resolved", resp |-> [tx |-> tx, err |-> TRUE]]
          /\ tx \notin DOMAIN pendingCommands'
          /\ \A t \in timers' : t.tx # tx
          /\ ~closed'
          /\ Conn' = [handleResponse(Conn, [tx |-> tx, err |-> FALSE])
                        EXCEPT !.waiters[call].resp.err = TRUE]
          /\ IF commandQueue = <<>>
             THEN written' = written /\ pendingCommands' = EmptyMap
             ELSE /\ commandQueue' = Tail(commandQueue)
                  /\ written' = Append(written, [call |-> Head(commandQueue),
                                                  tx |-> transactionId + 1])
                  /\ DOMAIN pendingCommands' = {transactionId + 1}
                  /\ pendingCommands'[transactionId + 1] = Head(commandQueue)]_vars

\* An error response has just answered the first command and the queued
\* second command was written in the same step.
C25_Witness ==
  /\ lastEvent.type = "response" /\ lastEvent.err /\ lastEvent.call = 1
  /\ waiters[1].status = "Resolved" /\ waiters[1].resp.err
  /\ Len(written) = 2 /\ written[2].call = 2
  /\ ~closed

\* C26: engine errors are surfaced. Whenever a session operation resumes
\* with a response that carries an engine error, its caller gets an error
\* outcome that carries the engine's code and message.
C26_EngineErrorSurfaced ==
  [][\A c \in Ids :
       /\ conns[c].microQ # <<>>
       /\ conns'[c].microQ = Tail(conns[c].microQ)
       /\ conns[c].waiters[Head(conns[c].microQ)].status = "Resolved"
       /\ conns[c].waiters[Head(conns[c].microQ)].resp.err
       /\ ops[c][Head(conns[c].microQ)].kind \in SessionOps
       => mlast'.type = "error" /\ mlast'.res = 2]_vars

\* C27: a failed feature negotiation is not fatal. Whenever a setFeature
\* resumes, whether its response resolved with or without an error or its
\* command timed out, initialize goes on: after each of the first three the
\* next feature_set is sent, and after the fourth the session is initialized,
\* registered in the sessions map and sessionCreated is emitted once.
C27_FeatureFailureNonFatal ==
  [][\A c \in Ids :
       /\ conns[c].microQ # <<>>
       /\ conns'[c].microQ # conns[c].microQ
       /\ ops[c][Head(conns[c].microQ)].kind = "feature"
       => LET i == ops[c][Head(conns[c].microQ)].arg IN
          IF i < NumFeatures
          THEN /\ ops'[c] = Append(ops[c], [kind |-> "feature", arg |-> i + 1])
               /\ Len(conns'[c].waiters) = Len(conns[c].waiters) + 1
          ELSE /\ sess'[c].initialized
               /\ c \in Range(sessions')
               /\ sessionCreated'[c] = sessionCreated[c] + 1]_vars

\* The fourth setFeature has just returned false on an open connection and
\* the session is registered.
C27_Witness ==
  /\ mlast.type = "setFeature" /\ mlast.id = NumFeatures /\ mlast.res = 0
  /\ ~conns[1].closed
  /\ sess[1].initialized /\ 1 \in Range(sessions) /\ sessionCreated[1] = 1

\* C28: argument escaping round-trips and is injective. For every value
\* over ordinary characters, whitespace, the double quote and the backslash,
\* reading the escaped form back (unquoting, removing the backslash escapes)
\* gives the value, and two different values have different escaped forms.
C28_EscapeRoundTrip ==
  /\ argPc = "parsed" => argParsed = argValue
  /\ argPc \in {"escaped", "parsed"} /\ argValue # otherValue =>
       argEscaped # otherEscaped

\* A value holding a quote, a backslash and a whitespace was escaped, with
\* quotes around it and a backslash before the quote and the backslash, and
\* read back; the other value needed no quoting.
C28_Witness ==
  /\ argPc = "parsed"
  /\ argValue = <<Quote, Backslash, Space>>
  /\ argEscaped = <<Quote, Backslash, Quote, Backslash, Backslash, Space, Quote>>
  /\ argParsed = argValue
  /\ otherValue = <<Ordinary>> /\ otherEscaped = otherValue

\* The buffer handleData gives to processBuffer in this step.
Buffered == buffer \o SubSeq(wire, fed + 1, fed')

\* The codec is left as processBuffer leaves it when started in DataLength
\* on the bytes rest with nothing emitted for the bytes before them. The
\* value left in expectedLength is not compared.
ResumesFrom(rest) ==
  LET r == processBuffer([Codec EXCEPT !.buffer = rest, !.parserState = "DataLength"])
  IN /\ buffer' = r.buffer
     /\ parserState' = r.parserState
     /\ emitted' = r.emitted

\* C29: the byte after the body must be NUL. When the codec awaits a body of
\* n bytes and a chunk brings the buffer to n + 1 bytes or more with a byte
\* other than NUL at offset n, nothing is emitted for those bytes and the
\* codec goes on in DataLength one byte further.
C29_TrailerChecked ==
  [][/\ parserState = "Response"
     /\ fed' > fed
     /\ Len(Buffered) >= expectedLength.val + 1
     /\ Buffered[expectedLength.val + 1] # NUL
     => ResumesFrom(Tail(Buffered))]_vars

\* A length field that is not an ASCII decimal number, or one that is not
\* positive.
Malformed(lengthStr) ==
  \/ lengthStr = <<>>
  \/ \E i \in DOMAIN lengthStr : ~IsDigit(lengthStr[i])
  \/ DigitsValue(lengthStr, 0) <= 0

\* C30: a framing error leaves the connection alone. When a chunk completes
\* a length field (the bytes before the first NUL, the codec being in
\* DataLength) that is malformed or not positive, the bytes up to and
\* including that NUL are discarded with nothing emitted for them, the codec
\* goes on in DataLength, and pendingCommands, the queue, the transaction
\* counter and the close flag are unchanged.
C30_FramingErrorSkipsField ==
  [][/\ parserState = "DataLength"
     /\ fed' > fed
     /\ indexOf(Buffered, NUL) # 0
     /\ Malformed(SubSeq(Buffered, 1, indexOf(Buffered, NUL) - 1))
     => /\ ResumesFrom(SubSeq(Buffered, indexOf(Buffered, NUL) + 1, Len(Buffered)))
        /\ UNCHANGED <<pendingCommands, commandQueue, transactionId, closed>>]_vars

\* The waiters of connection c that are settled or whose continuation ran.
Completed(c) == {i \in DOMAIN conns[c].waiters : conns[c].waiters[i].status # "waiting"}

\* C31: frames are classified by their root element. An init or stream
\* frame completes no waiter and takes no command out of the queue, and a
\* frame whose root is none of init, response and stream makes the
\* connection emit an error event.
C31_FrameClassified ==
  [][\A c \in Ids :
       /\ InitFrame(c) \/ (mlast'.type = "frame" /\ mlast'.id = c /\ mlast'.root = "stream")
            => /\ Completed(c)' = Completed(c)
               /\ Len(conns'[c].commandQueue) >= Len(conns[c].commandQueue)
               /\ SubSeq(conns'[c].commandQueue, 1, Len(conns[c].commandQueue))
                    = conns[c].commandQueue
       /\ mlast'.type = "frame" /\ mlast'.id = c /\ mlast'.root = "other"
            => mlast'.event = "error"]_vars

\* C34: every session of the sessions map has an open connection, and so
\* has the active session: a connection that closed during initialize is
\* never registered.
C34_RegisteredIsOpen ==
  /\ \A c \in Range(sessions) : ~conns[c].closed
  /\ activeSessionId # NoId => ~conns[activeSessionId].closed

\* C38: a registered session means an active session. After every step a
\* non-empty sessions map comes with a non-null activeSessionId; the session
\* registered into an empty map becomes active whatever its status; when the
\* active session closes the first remaining session becomes active; and a
\* tool resolving without an id gets a session while one is registered.
C38_ActiveWhenRegistered ==
  [][/\ sessions' # <<>> => activeSessionId' # NoId
     /\ sessions = <<>> /\ sessions' # <<>> => activeSessionId' = Head(sessions')
     /\ mlast'.type = "close" /\ mlast'.id = activeSessionId /\ activeSessionId # NoId
          /\ sessions' # sessions
          => activeSessionId' = First(sessions')
     /\ mlast'.type = "resolve" /\ sessions # <<>> => mlast'.res # NoId]_vars

\* Session 1 has closed; session 2, which is not in break, remains and is
\* the active one.
C38_Witness ==
  /\ mlast.type = "close" /\ mlast.id = 1 /\ sessionEnded[1] = 1
  /\ sessions = <<2>> /\ sess[2].status # "break"
  /\ activeSessionId = 2

\* C36: sendCommand never bypasses a waiting command. On an open connection
\* a non-empty queue comes with exactly one outstanding command, after every
\* handler and also while the listeners of a response run inside
\* handleMessage, so that a sendCommand called there is queued and writes
\* nothing.
C36_NoBypass ==
  [][/\ ~closed' /\ commandQueue' # <<>> => MapSize(pendingCommands') = 1
     /\ lastEvent'.type = "response" =>
          LET mid == responseEmitted(Conn, [tx |-> lastEvent'.tx, err |-> lastEvent'.err])
          IN mid.commandQueue # <<>> =>
               /\ MapSize(mid.pendingCommands) = 1
               /\ sendCommand(mid).written = mid.written]_vars

\* C37: on a connection that never closes the queue never stalls and every
\* queued command is eventually written: a non-empty queue always comes with
\* an outstanding command, and every call waiting in the queue is written
\* later on.
C37_QueuedEventuallyWritten ==
  /\ [](commandQueue # <<>> => MapSize(pendingCommands) = 1)
  /\ \A c \in 1..MaxLiveCalls : (c \in Range(commandQueue)) ~> (c \in WrittenCalls)

\* Three calls were made while the first was outstanding; the first ended by
\* its timer, the second by its response, and all three are written.
C37_Witness ==
  /\ ~closed /\ commandQueue = <<>>
  /\ Len(written) = 3 /\ written[3].call = 3
  /\ waiters[1].status = "Timeout" /\ waiters[2].status = "Resolved"
  /\ waiters[3].status = "waiting"

\* C40: a set-breakpoint request adds a pending breakpoint only when the
\* sessions map is empty, whatever session id it carries.
C40_PendingOnlyWithoutSessions ==
  [][/\ mlast'.type = "setBreakpoint"
     /\ Len(pendingBreakpoints') > Len(pendingBreakpoints)
     => sessions = <<>>]_vars

\* What the i-th command written on connection c was sent for.
WrittenKind(c, i) == ops[c][conns[c].written[i].call].kind

\* C35: no execution command overtakes the pending breakpoints. On every
\* connection no breakpoint_set of the application of the pending store is
\* written after an execution command of the client.
C35_BreakpointsBeforeExecution ==
  \A c \in Ids : \A i, j \in DOMAIN conns[c].written :
    i < j => ~(WrittenKind(c, i) = "run" /\ WrittenKind(c, j) = "bp")

\* C32: the init record is immutable. Once a connection has cached an init
\* record, no later frame changes it.
C32_InitRecordImmutable ==
  [][\A c \in Ids : initPacket[c] # NoPacket => initPacket'[c] = initPacket[c]]_vars

\* The pending entries applyToSession has given to breakpoint_set on c more
\* than once.
IssuedTwice(c) ==
  {k \in Range(issued[c]) :
     Cardinality({i \in DOMAIN issued[c] : issued[c][i] = k}) > 1}

\* C39: each accepted connection is registered as a session at most once:
\* sessionCreated and sessionEnded are emitted at most once for it, its
\* features are negotiated at most once and no pending breakpoint is applied
\* to it twice.
C39_RegisteredAtMostOnce ==
  \A c \in Ids :
    /\ sessionCreated[c] <= 1
    /\ sessionEnded[c] <= 1
    /\ initFrames(c) <= 1
    /\ IssuedTwice(c) = {}

\* C33: when the connection of a registered session closes, the session's
\* status becomes stopped, it leaves the sessions map and sessionEnded is
\* emitted exactly once for it; the status of a session whose connection
\* has closed does not change afterwards.
C33_CloseEndsSessionOnce ==
  [][\A c \in Ids :
       /\ mlast'.type = "close" /\ mlast'.id = c /\ c \in Range(sessions) =>
            /\ sess'[c].status = "stopped"
            /\ c \notin Range(sessions')
            /\ sessionEnded'[c] = sessionEnded[c] + 1
       /\ conns[c].closed /\ sess[c].created => sess'[c].status = sess[c].status]_vars
====
